---- MODULE Spec2Model ----
(***************************************************************************)
(* A model of the time-tally work-hours core (src/src/workhours.rs):       *)
(* date parsing, the period segmenter, the Swedish holiday calculator, the *)
(* hour counter and the aggregation loop of calculate_workhours.           *)
(*                                                                         *)
(* A NaiveDate is modelled by its day number (days since 1970-01-01) with  *)
(* the accessors year/month/day/weekday/iso_week computed from it.         *)
(* A Result<T, String> is a record [ok |-> TRUE, val |-> T] or             *)
(* [ok |-> FALSE, err |-> message].                                        *)
(***************************************************************************)
EXTENDS Integers, Sequences, FiniteSets, TLC

VARIABLES
    pc,               \* position of the modelled call
    start,            \* calculate_workhours: the start argument (a string)
    end,              \* calculate_workhours: the end argument (a string)
    start_date,       \* parsed start date
    end_date,         \* parsed end date
    current_date,     \* loop variable of calculate_workhours
    years,            \* the BTreeMap<String, Year> under construction
    total_workhours,  \* running root total
    result,           \* the Result returned by calculate_workhours
    visited,          \* history: the intervals scored by the iterations so far
    call,             \* unit specifications: the arguments of the call
    ret               \* unit specifications: the value returned

vars == <<pc, start, end, start_date, end_date, current_date, years,
          total_workhours, result, visited, call, ret>>

-----------------------------------------------------------------------------
(* Bounds of the model.                                                    *)

\* years swept by the period_boundaries and holiday specifications
FirstYear == 2000
NumYears == 40
\* the longest year span handed to holidays::for_years
MaxYearSpan == 2
\* calculate_workhours: start dates are drawn from two windows, end dates
\* from start - MaxBack .. start + MaxSpan
WindowDays == 390
DupWindowDays == 24
MaxSpan == 32
MaxBack == 2

-----------------------------------------------------------------------------
(* chrono::NaiveDate                                                       *)

\* NaiveDateExt::is_leap_year, on the year
is_leap_year(year) ==
    year % 4 = 0 /\ (year % 100 # 0 \/ year % 400 = 0)

\* NaiveDateExt::days_in_month, on (year, month)
days_in_month_ym(year, month) ==
    CASE month \in {1, 3, 5, 7, 8, 10, 12} -> 31
      [] month \in {4, 6, 9, 11} -> 30
      [] month = 2 -> IF is_leap_year(year) THEN 29 ELSE 28

\* day number of the valid civil date (y, m, d)
DaysFromCivil(y, m, d) ==
    LET yy  == IF m <= 2 THEN y - 1 ELSE y
        era == yy \div 400
        yoe == yy - era * 400
        mp  == (m + 9) % 12
        doy == (153 * mp + 2) \div 5 + d - 1
        doe == yoe * 365 + yoe \div 4 - yoe \div 100 + doy
    IN  era * 146097 + doe - 719468

\* the civil date <<y, m, d>> of a day number
CivilFromDays(z) ==
    LET zz  == z + 719468
        era == zz \div 146097
        doe == zz - era * 146097
        yoe == (doe - doe \div 1460 + doe \div 36524 - doe \div 146096) \div 365
        doy == doe - (365 * yoe + yoe \div 4 - yoe \div 100)
        mp  == (5 * doy + 2) \div 153
        d   == doy - (153 * mp + 2) \div 5 + 1
        m   == IF mp < 10 THEN mp + 3 ELSE mp - 9
        y   == yoe + era * 400 + (IF m <= 2 THEN 1 ELSE 0)
    IN  <<y, m, d>>

\* Datelike::year / month / day
year_of(date) == CivilFromDays(date)[1]
month_of(date) == CivilFromDays(date)[2]
day_of(date) == CivilFromDays(date)[3]

\* Datelike::weekday().num_days_from_monday(): Monday = 0 .. Sunday = 6
num_days_from_monday(date) == (date + 3) % 7

\* the years of NaiveDate::MIN and NaiveDate::MAX
MIN_YEAR == -262143
MAX_YEAR == 262142

\* NaiveDate::from_ymd_opt: None unless (y, m, d) is a calendar date of the
\* years MIN_YEAR ..= MAX_YEAR
from_ymd_opt(y, m, d) ==
    IF /\ y >= MIN_YEAR /\ y <= MAX_YEAR
       /\ m \in 1..12 /\ d >= 1 /\ d <= days_in_month_ym(y, m)
    THEN [some |-> TRUE, date |-> DaysFromCivil(y, m, d)]
    ELSE [some |-> FALSE]

\* a mutant of days_in_month: December has 30 days
days_in_month_dec30(date) ==
    IF month_of(date) = 12 THEN 30
    ELSE days_in_month_ym(year_of(date), month_of(date))

\* NaiveDateExt::days_in_month of a date
days_in_month(date) == days_in_month_ym(year_of(date), month_of(date))

\* number of ISO weeks of a year: 53 when Jan 1 is a Thursday, or a
\* Wednesday in a leap year
IsoWeeksInYear(y) ==
    LET wd == num_days_from_monday(DaysFromCivil(y, 1, 1))
    IN  IF wd = 3 \/ (wd = 2 /\ is_leap_year(y)) THEN 53 ELSE 52

\* Datelike::iso_week().week()
iso_week(date) ==
    LET y       == year_of(date)
        ordinal == date - DaysFromCivil(y, 1, 1) + 1
        w       == (ordinal - (num_days_from_monday(date) + 1) + 10) \div 7
    IN  IF w < 1 THEN IsoWeeksInYear(y - 1)
        ELSE IF w > IsoWeeksInYear(y) THEN 1
        ELSE w

Ok(v) == [ok |-> TRUE, val |-> v]
Err(msg) == [ok |-> FALSE, err |-> msg]

\* a panic that unwinds through the callers: like an Err it ends every
\* computation it reaches, and the caller of the task sees a JoinError
Panic(msg) == [ok |-> FALSE, panic |-> msg]
IsPanic(r) == "panic" \in DOMAIN r

\* i32::abs, away from i32::MIN
abs(n) == IF n < 0 THEN 0 - n ELSE n

\* the / and % of i32 and i64: the quotient is truncated towards zero,
\* whatever the signs of a and b, and the remainder has the sign of the
\* dividend (b # 0: the callers return the panic of a division by zero)
div(a, b) ==
    IF (a < 0) = (b < 0) THEN abs(a) \div abs(b)
    ELSE 0 - (abs(a) \div abs(b))
rem(a, b) == a - b * div(a, b)

\* NaiveDate::MIN and NaiveDate::MAX
MIN_DATE == DaysFromCivil(MIN_YEAR, 1, 1)
MAX_DATE == DaysFromCivil(MAX_YEAR, 12, 31)

\* NaiveDate + Duration::days(n): panics when the sum is not a NaiveDate
add_days(date, n) ==
    IF date + n > MAX_DATE \/ date + n < MIN_DATE
    THEN Panic("NaiveDate + TimeDelta overflowed")
    ELSE Ok(date + n)

-----------------------------------------------------------------------------
(* Period segmenter                                                        *)

\* a mutant of merged_stub_len: the leading stub is not merged
merged_stub_len_unmerged(latest_monday) == latest_monday + 6

\* a mutant of merged_stub_len: the merged period is a day short
merged_stub_len_short(latest_monday) == latest_monday + 12

\* period_boundaries, line 239: the length of a period that merges a leading
\* stub (latest_monday in -5..=-2) with the first full week
merged_stub_len(latest_monday) == latest_monday + 13

\* a mutant of first_period_len: off by one day
first_period_len_plus1(latest_monday) == latest_monday + 7

\* period_boundaries, line 243: the length of the first period of a month
\* when latest_monday is in -1..=5
first_period_len(latest_monday) == latest_monday + 6

\* a mutant of late_new_day: the start is never pulled back a week
late_new_day_no_pullback(day, wd, last_week_len) == day - wd

\* period_boundaries, lines 246-250: the day of month a later period starts on
late_new_day(day, wd, last_week_len) ==
    IF last_week_len > 1 THEN day - wd ELSE day - wd - 7

\* a mutant of late_period_len: a merged trailing period always has 8 days
late_period_len_8(last_week_len) ==
    CASE last_week_len \in {0, 1} -> Ok(8)
      [] last_week_len \in 2..8 -> Ok(last_week_len + 1)
      [] last_week_len \in 9..31 -> Ok(7)
      [] OTHER -> Err("Resulting calc should never be outside 0..=31.")

\* a mutant of late_period_len: the last week of a month is not clipped to
\* the month's last day
late_period_len_unclipped(last_week_len) ==
    CASE last_week_len \in {0, 1} -> Ok(last_week_len + 8)
      [] last_week_len \in 2..31 -> Ok(7)
      [] OTHER -> Err("Resulting calc should never be outside 0..=31.")

\* period_boundaries, lines 254-259: the length of a later period
late_period_len(last_week_len) ==
    CASE last_week_len \in {0, 1} -> Ok(last_week_len + 8)
      [] last_week_len \in 2..8 -> Ok(last_week_len + 1)
      [] last_week_len \in 9..31 -> Ok(7)
      [] OTHER -> Err("Resulting calc should never be outside 0..=31.")

\* period_boundaries: the (start, end) of the reporting period of a date.
\* The day arithmetic is i8 (latest_monday, last_week_len) and u32
\* (new_day); a u32 result below 0 wraps to a day no month has, which
\* from_ymd_opt rejects.
period_boundaries(date) ==
    LET y  == year_of(date)
        m  == month_of(date)
        wd == num_days_from_monday(date)
        latest_monday == day_of(date) - wd
        last_week_len == days_in_month(date) - latest_monday
        first    == from_ymd_opt(y, m, 1)
        new_date == from_ymd_opt(y, m, late_new_day(day_of(date), wd, last_week_len))
        len      == late_period_len(last_week_len)
        finish(start_d, n) == Ok(<<start_d, start_d + (n - 1)>>)
    IN  CASE latest_monday \in -5..-2 ->
               IF first.some THEN finish(first.date, merged_stub_len(latest_monday))
               ELSE Err("Invalid start date")
          [] latest_monday \in -1..5 ->
               IF first.some THEN finish(first.date, first_period_len(latest_monday))
               ELSE Err("Invalid start date")
          [] latest_monday \in 6..31 ->
               IF ~new_date.some THEN Err("Invalid calculated date")
               ELSE IF ~len.ok THEN len
               ELSE finish(new_date.date, len.val)
          [] OTHER -> Err("Resulting calc should never be outside -5..=31.")

\* the decimal rendering of an integer (Display for u32 and i32)
RECURSIVE to_string(_)
to_string(n) ==
    IF n < 0 THEN "-" \o to_string(0 - n)
    ELSE IF n < 10 THEN SubSeq("0123456789", n + 1, n + 1)
    ELSE to_string(n \div 10) \o SubSeq("0123456789", (n % 10) + 1, (n % 10) + 1)

\* a mutant of period_name: the label is always the week of the end
period_name_of_end(p_start, p_end) ==
    "week: " \o to_string(iso_week(p_end))

\* period_name: the label of a period
period_name(p_start, p_end) ==
    LET len == p_end - p_start
    IN  IF num_days_from_monday(p_start) = 0 /\ len >= 7
        THEN "week: " \o to_string(iso_week(p_start))
        ELSE "week: " \o to_string(iso_week(p_end))

-----------------------------------------------------------------------------
(* mod holidays                                                            *)

\* computus::gregorian_naive, its last lines: the day, from ee and the
\* month, and the date
gregorian_day(year, ee, month) ==
    from_ymd_opt(year, month, ee + 28 - (31 * div(month, 4)))

\* computus::gregorian_naive: the month, from ee
gregorian_month(year, ee) == gregorian_day(year, ee, 3 + div(ee + 40, 44))

\* computus::gregorian_naive: ee, from bb and dd
gregorian_ee(year, bb, dd) ==
    gregorian_month(year,
        dd - rem(year + div(year, 4) + dd + 2 - bb + div(bb, 4), 7))

\* computus::gregorian_naive: dd, from aa, bb and cc; 29 / (cc + 1) panics
\* when cc = -1
gregorian_dd(year, aa, bb, cc) ==
    IF cc + 1 = 0 THEN [some |-> FALSE, panic |-> "attempt to divide by zero"]
    ELSE gregorian_ee(year, bb,
             cc - div(cc, 28)
                    * (1 - div(cc, 28) * div(29, cc + 1) * div(21 - aa, 11)))

\* computus::gregorian_naive: cc, from aa and bb
gregorian_cc(year, aa, bb) ==
    gregorian_dd(year, aa, bb,
        rem(bb - div(bb, 4) - div(8 * bb + 13, 25) + (19 * aa) + 15, 30))

\* computus::gregorian_naive: Easter Sunday of a Gregorian year, computed
\* with the variables aa, bb, cc, dd, ee, month and day in this order
gregorian_naive(year) == gregorian_cc(year, rem(year, 19), div(year, 100))

\* holidays::easter: Good Friday, Easter Monday, Ascension Day; the `?`
\* returns the error of computus::gregorian_naive, whose message is the
\* crate's and is kept as one string here
easter(year) ==
    LET e == gregorian_naive(year)
    IN  IF e.some THEN Ok(<<e.date - 2, e.date + 1, e.date + 40>>)
        ELSE IF IsPanic(e) THEN Panic(e.panic)
        ELSE Err("Year out of range")

\* a mutant of national_day: a Sunday is moved back one day only
national_day_sat_only(year) ==
    LET nd == from_ymd_opt(year, 6, 6)
    IN  IF ~nd.some THEN Err("Failed to calculate the national day")
        ELSE CASE num_days_from_monday(nd.date) \in {5, 6} -> Ok(nd.date - 1)
               [] OTHER -> Ok(nd.date)

\* holidays::national_day: June 6, or the Friday before it on a weekend
national_day(year) ==
    LET nd == from_ymd_opt(year, 6, 6)
    IN  IF ~nd.some THEN Err("Failed to calculate the national day")
        ELSE CASE num_days_from_monday(nd.date) = 5 -> Ok(nd.date - 1)
               [] num_days_from_monday(nd.date) = 6 -> Ok(nd.date - 2)
               [] OTHER -> Ok(nd.date)

\* the while loop of holidays::midsummer: step back to a Friday
RECURSIVE midsummer_loop(_)
midsummer_loop(date) ==
    IF num_days_from_monday(date) # 4 THEN midsummer_loop(date - 1) ELSE date

\* holidays::midsummer: the latest Friday on or before June 30
midsummer(year) ==
    LET d == from_ymd_opt(year, 6, 30)
    IN  IF ~d.some THEN Err("Failed when initiating midsummer date calculation")
        ELSE Ok(midsummer_loop(d.date))

\* holidays::get_year_holidays: the array of 12 holidays of a year
get_year_holidays(year) ==
    LET fixed == << from_ymd_opt(year, 1, 1), from_ymd_opt(year, 1, 6),
                    from_ymd_opt(year, 5, 1), from_ymd_opt(year, 12, 24),
                    from_ymd_opt(year, 12, 25), from_ymd_opt(year, 12, 26),
                    from_ymd_opt(year, 12, 31) >>
        easter_dates == easter(year)
        ms == midsummer(year)
        nd == national_day(year)
    IN  IF \E i \in 1..7 : ~fixed[i].some THEN Err("Failed to initiate fixed date")
        ELSE IF ~easter_dates.ok THEN easter_dates
        ELSE IF ~ms.ok THEN ms
        ELSE IF ~nd.ok THEN nd
        ELSE Ok(<< fixed[1].date, fixed[2].date, fixed[3].date, fixed[4].date,
                   fixed[5].date, fixed[6].date, fixed[7].date,
                   easter_dates.val[1], easter_dates.val[2], easter_dates.val[3],
                   ms.val, nd.val >>)

\* the for loop of holidays::for_years, from `year` on, extending `acc`
RECURSIVE for_years_loop(_, _, _)
for_years_loop(year, end_year, acc) ==
    IF year > end_year THEN Ok(acc)
    ELSE LET year_holidays == get_year_holidays(year)
         IN  IF ~year_holidays.ok THEN year_holidays
             ELSE for_years_loop(year + 1, end_year, acc \o year_holidays.val)

\* holidays::for_years: the Vec of the holidays of start_year..=end_year
for_years(start_year, end_year) == for_years_loop(start_year, end_year, <<>>)

\* Vec::contains
contains(vec, x) == \E i \in 1..Len(vec) : vec[i] = x

-----------------------------------------------------------------------------
(* Hour counter                                                            *)

\* a mutant of day_hours: Sundays are paid
day_hours_sunday(holidays, date) ==
    IF \/ num_days_from_monday(date) = 5
       \/ contains(holidays, date)
    THEN 0 ELSE 8

\* a mutant of day_hours: holidays are paid
day_hours_no_holidays(holidays, date) ==
    IF \/ num_days_from_monday(date) = 5
       \/ num_days_from_monday(date) = 6
    THEN 0 ELSE 8

\* the hours one day adds in the while loop of calculate_period
day_hours(holidays, date) ==
    IF \/ num_days_from_monday(date) = 5
       \/ num_days_from_monday(date) = 6
       \/ contains(holidays, date)
    THEN 0 ELSE 8

\* a mutant of hours_loop: the last day of the period is not counted
RECURSIVE hours_loop_exclusive(_, _, _, _)
hours_loop_exclusive(holidays, date, period_end, hours) ==
    IF date < period_end
    THEN IF ~add_days(date, 1).ok THEN add_days(date, 1)
         ELSE hours_loop_exclusive(holidays, date + 1, period_end,
                                   hours + day_hours(holidays, date))
    ELSE Ok(hours)

\* the while loop of calculate_period, lines 204-215: the hours of
\* date..=period_end; `date += Duration::days(1)` panics after the last day
\* NaiveDate can hold
RECURSIVE hours_loop(_, _, _, _)
hours_loop(holidays, date, period_end, hours) ==
    IF date <= period_end
    THEN IF ~add_days(date, 1).ok THEN add_days(date, 1)
         ELSE hours_loop(holidays, date + 1, period_end,
                         hours + day_hours(holidays, date))
    ELSE Ok(hours)

\* a mutant of min_date: the period is not clipped to the end of the range
min_date_unclipped(a, b) == b

\* cmp::min on dates
min_date(a, b) == IF b < a THEN b ELSE a

\* calculate_period, lines 204-216: the hours of start_date..=period_end
\* under the holidays fetched, with the name and the clipped end
period_result(name, hours, period_end) ==
    IF ~hours.ok THEN hours
    ELSE Ok(<< name, hours.val, period_end >>)

count_period(s_date, period_end, name, holidays) ==
    IF ~holidays.ok THEN holidays
    ELSE period_result(name, hours_loop(holidays.val, s_date, period_end, 0), period_end)

\* a mutant of score_period: the period is named from the clipped interval
score_period_clipped_name(s_date, e_date, pb) ==
    IF ~pb.ok THEN pb
    ELSE count_period(s_date,
                      min_date(e_date, pb.val[2]),
                      period_name(s_date, min_date(e_date, pb.val[2])),
                      for_years(year_of(s_date), year_of(pb.val[2])))

\* calculate_period, lines 199-203, given pb = period_boundaries(start_date)?:
\* the period name and the holidays come from the natural boundaries, the
\* end is clipped to end_date
score_period(s_date, e_date, pb) ==
    IF ~pb.ok THEN pb
    ELSE count_period(s_date,
                      min_date(e_date, pb.val[2]),
                      period_name(pb.val[1], pb.val[2]),
                      for_years(year_of(s_date), year_of(pb.val[2])))

\* calculate_period: (period name, hours, clipped period end) of the period
\* of start_date, scored from start_date to min(end_date, natural end)
calculate_period(s_date, e_date) ==
    score_period(s_date, e_date, period_boundaries(s_date))

-----------------------------------------------------------------------------
(* parse_dates                                                             *)

Digits == {"0", "1", "2", "3", "4", "5", "6", "7", "8", "9"}

\* the character at position i of s, "" past the end
char_at(s, i) == IF i >= 1 /\ i <= Len(s) THEN SubSeq(s, i, i) ELSE ""

digit_value(c) ==
    CASE c = "0" -> 0 [] c = "1" -> 1 [] c = "2" -> 2 [] c = "3" -> 3
      [] c = "4" -> 4 [] c = "5" -> 5 [] c = "6" -> 6 [] c = "7" -> 7
      [] c = "8" -> 8 [] c = "9" -> 9

\* the white space of one character each, by code point: U+000B, U+000C,
\* U+0085, U+00A0, U+1680
VerticalTab == ""
FormFeed == "\f"
NextLine == ""
NoBreakSpace == " "
OghamSpaceMark == " "

\* the white space str::trim_start removes: the characters with the Unicode
\* property White_Space. U+2000..U+200A, U+2028, U+2029, U+202F, U+205F and
\* U+3000 have the property as well; no string constant of a module can
\* hold them, so the strings of this model are over an alphabet without
\* them.
Whitespace == {" ", "\t", "\n", "\r", VerticalTab, FormFeed, NextLine,
               NoBreakSpace, OghamSpaceMark}

\* a value no field of a date reaches: scan::number adds digits in i64 and
\* fails with OUT_OF_RANGE on overflow, and every year above MAX_YEAR fails
\* in the construction of the date, so larger values are kept as this one
OutOfRange == 1000000

\* the value of n digits after one more digit
push_digit(acc, c) ==
    IF acc * 10 + digit_value(c) > OutOfRange THEN OutOfRange
    ELSE acc * 10 + digit_value(c)

\* chrono's scan::number(s, 1, max) from position pos: the value of the
\* longest run of 1..max digits and the position after it
RECURSIVE scan_number(_, _, _, _, _)
scan_number(s, pos, max, taken, acc) ==
    IF taken < max /\ char_at(s, pos) \in Digits
    THEN scan_number(s, pos + 1, max, taken + 1, push_digit(acc, char_at(s, pos)))
    ELSE [ok |-> taken >= 1, val |-> acc, next |-> pos]

\* str::trim_start from position pos: the position of the first character
\* that is not white space
RECURSIVE trim_start(_, _)
trim_start(s, pos) ==
    IF char_at(s, pos) \in Whitespace THEN trim_start(s, pos + 1) ELSE pos

\* an unsigned numeric item (%d, %m) from position pos: white space is
\* skipped, then 1..max digits are taken
scan_unsigned(s, pos, max) == scan_number(s, trim_start(s, pos), max, 0, 0)

\* the value of a signed item, given the scan of its digits
negated(n) == [ok |-> n.ok, val |-> 0 - n.val, next |-> n.next]

\* the signed numeric item %Y from position at, white space already skipped:
\* after '-' or '+' any number of digits, else 1..4 digits
scan_signed_at(s, at) ==
    IF char_at(s, at) = "-" THEN negated(scan_number(s, at + 1, Len(s), 0, 0))
    ELSE IF char_at(s, at) = "+" THEN scan_number(s, at + 1, Len(s), 0, 0)
    ELSE scan_number(s, at, 4, 0, 0)

\* the signed numeric item %Y from position pos
scan_signed(s, pos) == scan_signed_at(s, trim_start(s, pos))

\* NaiveDate::parse_from_str(s, "%d-%m-%Y"): %d and %m skip white space and
\* take one or two digits; %Y skips white space and takes a sign and any
\* number of digits, or one to four digits; the literals must match, nothing
\* may follow, and the fields must name a date NaiveDate can hold
parse_from_str(s) ==
    LET d == scan_unsigned(s, 1, 2)
        m == scan_unsigned(s, d.next + 1, 2)
        y == scan_signed(s, m.next + 1)
    IN  IF /\ d.ok /\ char_at(s, d.next) = "-"
           /\ m.ok /\ char_at(s, m.next) = "-"
           /\ y.ok /\ y.next = Len(s) + 1
        THEN from_ymd_opt(y.val, m.val, d.val)
        ELSE [some |-> FALSE]

\* a mutant of parse_dates: an inverted range is swapped
parse_dates_swap(s, e) ==
    LET sd == parse_from_str(s)
        ed == parse_from_str(e)
    IN  IF ~sd.some THEN Err("Invalid start date")
        ELSE IF ~ed.some THEN Err("Invalid start date")
        ELSE IF sd.date > ed.date THEN Ok(<<ed.date, sd.date>>)
        ELSE Ok(<<sd.date, ed.date>>)

\* parse_dates: both dates, or the error of the first check that fails
parse_dates(s, e) ==
    LET sd == parse_from_str(s)
        ed == parse_from_str(e)
    IN  IF ~sd.some THEN Err("Invalid start date")
        ELSE IF ~ed.some THEN Err("Invalid start date")
        ELSE IF sd.date > ed.date THEN Err("Start date must be before end date")
        ELSE Ok(<<sd.date, ed.date>>)

-----------------------------------------------------------------------------
(* Aggregation: calculate_workhours                                        *)

MonthNames == << "January", "February", "March", "April", "May", "June", "July",
                 "August", "September", "October", "November", "December" >>

\* format!("{:02}", n) for n < 100
pad2(n) == IF n < 10 THEN "0" \o to_string(n) ELSE to_string(n)

\* the year key: current_date.year().to_string()
year_key(date) == to_string(year_of(date))

\* the month key: format!("{:02}-{}", month, "%B")
month_key(date) == pad2(month_of(date)) \o "-" \o MonthNames[month_of(date)]

\* BTreeMap::new()
EmptyMap == [k \in {} |-> 0]

\* BTreeMap::insert
insert(map, k, v) == [x \in DOMAIN map \cup {k} |-> IF x = k THEN v ELSE map[x]]

\* BTreeMap::entry(k).or_insert_with(|| v)
or_insert_with(map, k, v) == IF k \in DOMAIN map THEN map ELSE insert(map, k, v)

\* a mutant of add_period: the year total is not updated
add_period_no_year_total(tree, year, month, week, workhours) ==
    LET ys == or_insert_with(tree, year, [months |-> EmptyMap, total |-> 0])
        ms == or_insert_with(ys[year].months, month, [weeks |-> EmptyMap, total |-> 0])
        month_entry == [weeks |-> insert(ms[month].weeks, week, workhours),
                        total |-> ms[month].total + workhours]
        year_entry  == [months |-> insert(ms, month, month_entry),
                        total  |-> ys[year].total]
    IN  insert(ys, year, year_entry)

\* lines 117-135: the tree after the period `week` with `workhours` is stored
\* under (year, month) and added to the year and month totals
add_period(tree, year, month, week, workhours) ==
    LET ys == or_insert_with(tree, year, [months |-> EmptyMap, total |-> 0])
        ms == or_insert_with(ys[year].months, month, [weeks |-> EmptyMap, total |-> 0])
        month_entry == [weeks |-> insert(ms[month].weeks, week, workhours),
                        total |-> ms[month].total + workhours]
        year_entry  == [months |-> insert(ms, month, month_entry),
                        total  |-> ys[year].total + workhours]
    IN  insert(ys, year, year_entry)

\* the inputs of the modelled calls: well-formed dates written DD-MM-YYYY
format_date(date) ==
    pad2(day_of(date)) \o "-" \o pad2(month_of(date)) \o "-" \o to_string(year_of(date))

\* start dates: a window from mid-December 2023 over the leap year 2024 into
\* 2025, and a window around June 4 2038 (a date get_year_holidays lists
\* twice: as Easter + 40 days and as the national day moved from Sunday)
StartDates ==
    LET a == DaysFromCivil(2023, 12, 18)
        b == DaysFromCivil(2038, 5, 20)
    IN  (a .. a + WindowDays - 1) \cup (b .. b + DupWindowDays - 1)

\* strings that are not DD-MM-YYYY dates, and leniently accepted ones
OddInputs == { "2024-01-01", "31-02-2024", "29-02-2023", "01-13-2024",
               "00-01-2024", "", "01-01", "01/01/2024", "01-01-20245",
               "ab-01-2024", "1-1-2024", "7-1-2024", "01-01-2024",
               "07-01-2024", "31-12-2024", "29-02-2024" }

\* strings with white space or a sign that no date is parsed from
SignedRejected == { "01-01-+ 2024", "01 -01-2024", "01-01-2024 ", "+1-01-2024",
                    "01-01-+", "01-01--", "01-01-+999999",
                    "01-01-+99999999999999999999" }

\* strings with white space other than space and tab before a field: the
\* first seven name days of January 2024, the last two no date
UnicodeSpaced ==
    { FormFeed \o "01-01-2024", FormFeed \o "07-01-2024",
      VerticalTab \o "01-01-2024", "01-" \o FormFeed \o "01-2024",
      "01-01-" \o VerticalTab \o "2024", "02-01-" \o FormFeed \o "+2024",
      " " \o FormFeed \o "\t 03-01-2024",
      NextLine \o "4-" \o NoBreakSpace \o "1-" \o OghamSpaceMark \o "2024",
      "\n05-\r01-2024",
      "01-01-2024" \o FormFeed, "01" \o VerticalTab \o "-01-2024" }

\* strings with white space before a field or a sign before the year, by the
\* year they name: 2024, -2024 and MAX_YEAR; the two arguments of a call are
\* drawn from one zone
LenientZones ==
    { { "01-01-+2024", " 01-01-2024", "01- 01-2024", "01-01- 2024",
        "01-01-+02024", "\t7-1-2024", "10-01-+2024", "01-01-2024" }
          \cup SignedRejected,
      UnicodeSpaced \cup {"01-01-2024", "07-01-2024", "2024-01-01"},
      { "01-01--2024", "1-1--02024", " 6- 1- -2024", "20-01--2024" },
      { "01-12-+262142", "25-12-+262142", "30-12-+262142", "31-12-+262142",
        "31-12-+0262142" } }

Init ==
    /\ pc = "parse"
    /\ \/ \E d \in StartDates : \E k \in (0 - MaxBack) .. MaxSpan :
             start = format_date(d) /\ end = format_date(d + k)
       \/ start \in OddInputs /\ end \in OddInputs
       \/ \E zone \in LenientZones : start \in zone /\ end \in zone
    /\ start_date = 0 /\ end_date = 0 /\ current_date = 0
    /\ years = EmptyMap
    /\ total_workhours = 0
    /\ result = Err("pending")
    /\ visited = <<>>
    /\ call = <<>>
    /\ ret = <<>>

\* calculate_workhours, line 103-108: parse_dates(start, end)?, then the
\* initialisation of the loop
Parse ==
    /\ pc = "parse"
    /\ LET r == parse_dates(start, end)
       IN  IF r.ok
           THEN /\ start_date' = r.val[1]
                /\ end_date' = r.val[2]
                /\ current_date' = r.val[1]
                /\ pc' = "loop"
                /\ result' = result
           ELSE /\ result' = r
                /\ pc' = "done"
                /\ UNCHANGED <<start_date, end_date, current_date>>
    /\ years' = EmptyMap
    /\ total_workhours' = 0
    /\ UNCHANGED <<start, end, visited, call, ret>>

\* a mutant of Store: the next iteration starts on the next day
Store_day_step(year, month, cp) ==
    IF cp.ok
    THEN /\ years' = add_period(years, year, month, cp.val[1], cp.val[2])
         /\ total_workhours' = total_workhours + cp.val[2]
         /\ current_date' = current_date + 1
         /\ visited' = Append(visited,
                              [begin |-> current_date, end |-> cp.val[3],
                               week |-> cp.val[1], hours |-> cp.val[2]])
         /\ UNCHANGED <<pc, result>>
    ELSE /\ result' = cp
         /\ pc' = IF IsPanic(cp) THEN "panicked" ELSE "done"
         /\ UNCHANGED <<years, total_workhours, current_date, visited>>

\* calculate_workhours, lines 115-137: the rest of an iteration, given the
\* keys and cp = calculate_period(&current_date, &end_date); an Err is
\* returned by `?`, a panic of calculate_period or of
\* `period_end_date + Duration::days(1)` (line 137) unwinds the task
Store(year, month, cp) ==
    IF cp.ok /\ add_days(cp.val[3], 1).ok
    THEN /\ years' = add_period(years, year, month, cp.val[1], cp.val[2])
         /\ total_workhours' = total_workhours + cp.val[2]
         /\ current_date' = cp.val[3] + 1
         /\ visited' = Append(visited,
                              [begin |-> current_date, end |-> cp.val[3],
                               week |-> cp.val[1], hours |-> cp.val[2]])
         /\ UNCHANGED <<pc, result>>
    ELSE /\ result' = IF cp.ok THEN add_days(cp.val[3], 1) ELSE cp
         /\ pc' = IF cp.ok \/ IsPanic(cp) THEN "panicked" ELSE "done"
         /\ UNCHANGED <<years, total_workhours, current_date, visited>>

\* calculate_workhours, lines 109-138: one iteration of the while loop
Iterate ==
    /\ pc = "loop"
    /\ current_date <= end_date
    /\ Store(year_key(current_date), month_key(current_date),
             calculate_period(current_date, end_date))
    /\ UNCHANGED <<start, end, start_date, end_date, call, ret>>

\* calculate_workhours, lines 109 and 141-144: the loop condition fails and
\* the tree is returned
Return ==
    /\ pc = "loop"
    /\ ~(current_date <= end_date)
    /\ result' = Ok([years |-> years, total |-> total_workhours])
    /\ pc' = "done"
    /\ UNCHANGED <<start, end, start_date, end_date, current_date, years,
                   total_workhours, visited, call, ret>>

Next == Parse \/ Iterate \/ Return

Spec == Init /\ [][Next]_vars

-----------------------------------------------------------------------------
(* Unit specification of period_boundaries: one call on any date of the    *)
(* years FirstYear .. FirstYear + NumYears - 1.                            *)

SweepDates ==
    DaysFromCivil(FirstYear, 1, 1) .. DaysFromCivil(FirstYear + NumYears - 1, 12, 31)

IdleMain ==
    /\ start = "" /\ end = ""
    /\ start_date = 0 /\ end_date = 0 /\ current_date = 0
    /\ years = EmptyMap
    /\ total_workhours = 0
    /\ result = Err("pending")
    /\ visited = <<>>

InitBoundaries ==
    /\ pc = "call"
    /\ \E d \in SweepDates : call = [date |-> d]
    /\ ret = <<>>
    /\ IdleMain

CallBoundaries ==
    /\ pc = "call"
    /\ ret' = period_boundaries(call.date)
    /\ pc' = "returned"
    /\ UNCHANGED <<start, end, start_date, end_date, current_date, years,
                   total_workhours, result, visited, call>>

NextBoundaries == CallBoundaries

SpecBoundaries == InitBoundaries /\ [][NextBoundaries]_vars

(* Unit specification of holidays::for_years: one call on a year span.     *)

InitHolidays ==
    /\ pc = "call"
    /\ \E a \in FirstYear .. FirstYear + NumYears - 1 :
          \E n \in 0 .. MaxYearSpan : call = [start_year |-> a, end_year |-> a + n]
    /\ ret = <<>>
    /\ IdleMain

CallHolidays ==
    /\ pc = "call"
    /\ ret' = for_years(call.start_year, call.end_year)
    /\ pc' = "returned"
    /\ UNCHANGED <<start, end, start_date, end_date, current_date, years,
                   total_workhours, result, visited, call>>

NextHolidays == CallHolidays

SpecHolidays == InitHolidays /\ [][NextHolidays]_vars

-----------------------------------------------------------------------------
(* calculate_workhours as a task that is scheduled until it returns        *)

\* the guard of Parse; the step always changes pc
ParseEnabled == pc = "parse"

\* the guard of Iterate (the loop condition); the step always changes
\* visited or pc
IterateEnabled == pc = "loop" /\ current_date <= end_date

\* weak fairness of Parse and of Iterate, with ENABLED <<A>>_vars written
\* out as the action's guard
FairParse == []<>(~ParseEnabled) \/ []<><<Parse>>_vars
FairIterate == []<>(~IterateEnabled) \/ []<><<Iterate>>_vars

\* the thread that runs calculate_workhours keeps being scheduled while it
\* has a step to take
FairSpec == Spec /\ FairParse /\ FairIterate /\ WF_vars(Return)

-----------------------------------------------------------------------------
(* The request handler get_workhours (src/src/lib.rs)                      *)

\* the JoinHandle result of a closure that panicked
JoinError == [joined |-> FALSE]

\* task::spawn_blocking(closure).await, given the outcome of the closure: the
\* JoinHandle yields Ok(value) when the closure returns `value`, and
\* Err(JoinError) when it panics
spawn_blocking(value) ==
    IF IsPanic(value) THEN JoinError ELSE [joined |-> TRUE, value |-> value]

\* get_workhours, lines 238-250: the response to the result of the task
get_workhours(task) ==
    IF ~task.joined
    THEN [status |-> 500, body |-> [error |-> "Internal Server Error"]]
    ELSE IF task.value.ok
    THEN [status |-> 200, body |-> task.value.val]
    ELSE [status |-> 400, body |-> [error |-> task.value.err]]

\* get_workhours, lines 236-250, after calculate_workhours(query.start,
\* query.end) has returned in the blocking task
Respond ==
    /\ pc \in {"done", "panicked"}
    /\ ret' = get_workhours(spawn_blocking(result))
    /\ pc' = "responded"
    /\ UNCHANGED <<start, end, start_date, end_date, current_date, years,
                   total_workhours, result, visited, call>>

NextServe == Parse \/ Iterate \/ Return \/ Respond

\* one request: the core runs on the query and the handler responds
SpecServe == Init /\ [][NextServe]_vars

(* Requests about the years -8 and -7. In the year -7 the computation of   *)
(* computus::gregorian_naive ends on day -1 of March, which is no date.     *)

\* the days of the years -8 and -7 that the requests name, and two strings
\* no date is parsed from
EarlyInputs ==
    { "15-12--8", "22-12--8", "25-12--8", "28-12--8", "31-12--8",
      "01-01--7", "02-01--7", "05-01--7", "12-01--7", "01-03--7",
      "31-12--7", "-7-01-01", "01-01--" }

InitEarly ==
    /\ pc = "parse"
    /\ start \in EarlyInputs /\ end \in EarlyInputs
    /\ start_date = 0 /\ end_date = 0 /\ current_date = 0
    /\ years = EmptyMap
    /\ total_workhours = 0
    /\ result = Err("pending")
    /\ visited = <<>>
    /\ call = <<>>
    /\ ret = <<>>

\* one request about these years: the core runs on the query and the
\* handler responds
SpecEarly == InitEarly /\ [][NextServe]_vars

-----------------------------------------------------------------------------
(* Unit specification of period_boundaries at both ends of a month: one    *)
(* call on the first day of a month and one on the last day of a month.    *)

\* number of years the pairs of months are drawn from
PairYears == 12

\* the first days and the last days of the months of the years
\* FirstYear .. FirstYear + PairYears - 1
FirstDays ==
    {DaysFromCivil(y, m, 1) : y \in FirstYear .. FirstYear + PairYears - 1, m \in 1..12}
LastDays ==
    {DaysFromCivil(y, m, days_in_month_ym(y, m)) :
        y \in FirstYear .. FirstYear + PairYears - 1, m \in 1..12}

\* days of the Monday-based week that day 1 of a month opens: 7 on a Monday
LeadingWeekDays(first) == 7 - num_days_from_monday(first)

\* days of the Monday-based week that the last day of a month closes: 7 on
\* a Sunday
TrailingWeekDays(last) == num_days_from_monday(last) + 1

InitPair ==
    /\ pc = "call"
    /\ \E d1 \in FirstDays : \E d2 \in LastDays :
          /\ LeadingWeekDays(d1) \in 1..6
          /\ LeadingWeekDays(d1) = TrailingWeekDays(d2)
          /\ call = [lead |-> d1, trail |-> d2]
    /\ ret = <<>>
    /\ IdleMain

CallPair ==
    /\ pc = "call"
    /\ ret' = [lead |-> period_boundaries(call.lead),
               trail |-> period_boundaries(call.trail)]
    /\ pc' = "returned"
    /\ UNCHANGED <<start, end, start_date, end_date, current_date, years,
                   total_workhours, result, visited, call>>

NextPair == CallPair

SpecPair == InitPair /\ [][NextPair]_vars

-----------------------------------------------------------------------------
(* Unit specification of period_boundaries on neighbouring dates: one call *)
(* on a date and one on a date up to MaxGap days later.                    *)

\* largest distance in days between the two dates
MaxGap == 11

InitNeighbours ==
    /\ pc = "call"
    /\ \E d \in SweepDates : \E k \in 1..MaxGap :
          call = [date |-> d, other |-> d + k]
    /\ ret = <<>>
    /\ IdleMain

CallNeighbours ==
    /\ pc = "call"
    /\ ret' = [date |-> period_boundaries(call.date),
               other |-> period_boundaries(call.other)]
    /\ pc' = "returned"
    /\ UNCHANGED <<start, end, start_date, end_date, current_date, years,
                   total_workhours, result, visited, call>>

NextNeighbours == CallNeighbours

SpecNeighbours == InitNeighbours /\ [][NextNeighbours]_vars

-----------------------------------------------------------------------------
(* Unit specification of the naming of natural periods: the period of a    *)
(* date and the period that follows it, each with its label, as two        *)
(* consecutive iterations of the loop compute them.                        *)

\* calculate_period, lines 201-202: the natural period of a date with its
\* label
named_period(pb) ==
    IF ~pb.ok THEN pb
    ELSE Ok([start |-> pb.val[1], end |-> pb.val[2],
             name |-> period_name(pb.val[1], pb.val[2])])

\* calculate_workhours, line 137, then calculate_period, lines 201-202: the
\* named period of the day after the period np ends
following_period(np) ==
    IF ~np.ok THEN np
    ELSE IF ~add_days(np.val.end, 1).ok THEN add_days(np.val.end, 1)
    ELSE named_period(period_boundaries(np.val.end + 1))

InitNames ==
    /\ pc = "call"
    /\ \E d \in SweepDates : call = [date |-> d]
    /\ ret = <<>>
    /\ IdleMain

CallNames ==
    /\ pc = "call"
    /\ ret' = [period |-> named_period(period_boundaries(call.date)),
               next |-> following_period(named_period(period_boundaries(call.date)))]
    /\ pc' = "returned"
    /\ UNCHANGED <<start, end, start_date, end_date, current_date, years,
                   total_workhours, result, visited, call>>

NextNames == CallNames

SpecNames == InitNames /\ [][NextNames]_vars

-----------------------------------------------------------------------------
(* Calendar notions the properties are stated in                           *)

MonthFirst(d) == d - day_of(d) + 1
MonthLast(d) == MonthFirst(d) + days_in_month(d) - 1
\* weekday (Monday = 0) of day 1 of the month of d
OpensOn(d) == num_days_from_monday(MonthFirst(d))
\* the first Monday of the month of d
FirstMonday(d) == MonthFirst(d) + ((7 - OpensOn(d)) % 7)
\* the second Sunday of the month of d
SecondSunday(d) == MonthFirst(d) + (6 - OpensOn(d)) + 7
\* the last Monday of the month of d
LastMonday(d) == MonthLast(d) - num_days_from_monday(MonthLast(d))
\* number of days of the month's last, partial or full, Monday-based week
TrailingDays(d) == MonthLast(d) - LastMonday(d) + 1

Returned == pc = "returned"
Done == pc = "done"

RECURSIVE SumOf(_, _)
SumOf(f, S) ==
    IF S = {} THEN 0
    ELSE LET k == CHOOSE x \in S : TRUE IN f[k] + SumOf(f, S \ {k})

\* the holiday set of one year
HolidaySet(y) ==
    LET h == get_year_holidays(y).val IN {h[i] : i \in 1..Len(h)}

WorkingDay(d) ==
    /\ num_days_from_monday(d) \notin {5, 6}
    /\ d \notin HolidaySet(year_of(d))

-----------------------------------------------------------------------------
(* Properties of calculate_workhours (specification Spec)                  *)

\* C1: the intervals scored by the iterations are contiguous and cover the
\* range exactly: the first begins at start, each next one begins the day
\* after the previous one ends, each has begin <= end, the position of the
\* loop is the day after the last one, and on return the last one ends at
\* end, so that every day of [start, end] lies in exactly one interval.
C1_SegmentationCoverage ==
    (pc = "loop" \/ (Done /\ result.ok)) =>
        LET n == Len(visited)
        IN  /\ \A i \in 1..n : visited[i].begin <= visited[i].end
            /\ n > 0 => visited[1].begin = start_date
            /\ \A i \in 2..n : visited[i].begin = visited[i - 1].end + 1
            /\ current_date = IF n = 0 THEN start_date ELSE visited[n].end + 1
            /\ Done => /\ n > 0
                       /\ visited[n].end = end_date
                       /\ \A d \in start_date..end_date :
                             Cardinality({i \in 1..n : visited[i].begin <= d
                                                       /\ d <= visited[i].end}) = 1

\* a returned walk of four or more periods that starts inside a period and
\* ends inside another one
C1_Witness ==
    /\ Done /\ result.ok
    /\ Len(visited) >= 4
    /\ period_boundaries(start_date).val[1] < start_date
    /\ end_date < period_boundaries(end_date).val[2]

TreeConsistent(tree) ==
    /\ tree.total = SumOf([y \in DOMAIN tree.years |-> tree.years[y].total],
                          DOMAIN tree.years)
    /\ \A y \in DOMAIN tree.years :
          LET months == tree.years[y].months
          IN  /\ tree.years[y].total =
                    SumOf([m \in DOMAIN months |-> months[m].total], DOMAIN months)
              /\ \A m \in DOMAIN months :
                    months[m].total = SumOf(months[m].weeks, DOMAIN months[m].weeks)

\* C2: in every returned tree the root total is the sum of the year totals,
\* each year total the sum of its month totals, and each month total the
\* sum of the hours stored under its period labels.
C2_TotalConsistency ==
    (Done /\ result.ok) => TreeConsistent(result.val)

\* a returned tree with two years and a positive total
C2_Witness ==
    /\ Done /\ result.ok
    /\ Cardinality(DOMAIN result.val.years) = 2
    /\ \A y \in DOMAIN result.val.years : result.val.years[y].total > 0

\* C3: the root total is 8 hours for each day of [start, end] that is not a
\* Saturday, not a Sunday and not a holiday of its year.
C3_TotalIsWorkingDays ==
    (Done /\ result.ok) =>
        result.val.total =
            8 * Cardinality({d \in start_date..end_date : WorkingDay(d)})

\* a returned range over Friday June 4 2038, which the holiday list holds
\* twice, and over the weekend after it, with some hours counted
C3_Witness ==
    /\ Done /\ result.ok
    /\ start_date < DaysFromCivil(2038, 6, 4)
    /\ end_date > DaysFromCivil(2038, 6, 6)
    /\ Cardinality({i \in 1..12 :
           get_year_holidays(2038).val[i] = DaysFromCivil(2038, 6, 4)}) = 2
    /\ result.val.total > 0

InvertedRange == "Start date must be before end date"

\* C7: with two dates that parse, start > end fails with the inverted-range
\* error and nothing is computed, and start = end is accepted; a date that
\* does not parse never fails with the inverted-range message.
C7_InvertedRangeRejected ==
    Done =>
        LET sd == parse_from_str(start)
            ed == parse_from_str(end)
        IN  IF sd.some /\ ed.some
            THEN /\ sd.date > ed.date =>
                       /\ result = Err(InvertedRange)
                       /\ visited = <<>>
                       /\ years = EmptyMap
                 /\ sd.date = ed.date =>
                       /\ result.ok
                       /\ start_date = sd.date /\ end_date = sd.date
            ELSE ~result.ok /\ result.err # InvertedRange

\* the call ("31-12-2024", "01-01-2024") has failed with the inverted-range
\* error
C7_Witness ==
    /\ Done
    /\ start = "31-12-2024" /\ end = "01-01-2024"
    /\ result = Err(InvertedRange)

\* C8, as claimed: a malformed end date (after a well-formed start date)
\* fails with a message that differs from the one of a malformed start date.
C8_MalformedEndNamesEnd ==
    (Done /\ parse_from_str(start).some /\ ~parse_from_str(end).some) =>
        /\ ~result.ok
        /\ result.err # parse_dates("", end).err

\* C9, as claimed: the week 01-01-2024 .. 07-01-2024 totals 24 hours.
C9_WeekTotals24 ==
    (Done /\ start = "01-01-2024" /\ end = "07-01-2024") =>
        result.ok /\ result.val.total = 24

\* C9, amended: the week 01-01-2024 .. 07-01-2024 totals 32 hours: of its
\* five weekdays only Jan 1 is a holiday, Jan 6 2024 being a Saturday.
C9_WeekTotals32 ==
    (Done /\ start = "01-01-2024" /\ end = "07-01-2024") =>
        /\ result.ok /\ result.val.total = 32
        /\ num_days_from_monday(DaysFromCivil(2024, 1, 6)) = 5
        /\ DaysFromCivil(2024, 1, 6) \in HolidaySet(2024)

\* the call ("01-01-2024", "07-01-2024") has returned a tree
C9_Witness ==
    /\ Done /\ start = "01-01-2024" /\ end = "07-01-2024"
    /\ result.ok
    /\ start_date = DaysFromCivil(2024, 1, 1) /\ end_date = DaysFromCivil(2024, 1, 7)

-----------------------------------------------------------------------------
(* Properties of period_boundaries (specification SpecBoundaries)          *)

\* C4: in a month that opens on a Thursday, Friday, Saturday or Sunday,
\* every date from day 1 to the second Sunday gets the period from day 1 to
\* the second Sunday, of 8 to 11 days.
C4_LeadingStubMerged ==
    (Returned /\ OpensOn(call.date) \in 3..6
              /\ call.date <= SecondSunday(call.date)) =>
        /\ ret = Ok(<<MonthFirst(call.date), SecondSunday(call.date)>>)
        /\ SecondSunday(call.date) - MonthFirst(call.date) + 1 \in 8..11

\* Aug 5 2024, in the first full week of a month opening on a Thursday, gets
\* the period Aug 1 .. Aug 11
C4_Witness ==
    /\ Returned
    /\ call.date = DaysFromCivil(2024, 8, 5)
    /\ ret = Ok(<<DaysFromCivil(2024, 8, 1), DaysFromCivil(2024, 8, 11)>>)

\* C5, as claimed: the parts of a week split by a month boundary with two
\* or more days on each side are periods of their own: a leading part of
\* 2..5 days ends on the first Sunday, a trailing part of 2..5 days starts
\* on the last Monday; so day 1 and day 2 of a month opening on a Saturday
\* get a period ending on day 2.
C5_SplitWeekNeverMerged ==
    Returned =>
        LET d == call.date
        IN  /\ (OpensOn(d) \in 2..5 /\ d < FirstMonday(d)) =>
                   ret = Ok(<<MonthFirst(d), FirstMonday(d) - 1>>)
            /\ (TrailingDays(d) \in 2..5 /\ d >= LastMonday(d)) =>
                   ret = Ok(<<LastMonday(d), MonthLast(d)>>)

\* C5, amended: a leading part is a period of its own only when it has 5 or
\* 6 days (the month opens on a Wednesday or Tuesday) and a trailing part
\* only when it has 3 to 6 days; a leading part of 2..4 days and a trailing
\* part of 2 days are merged with the neighbouring full week.  Day 1 and day
\* 2 of a month opening on a Saturday get the period day 1 .. day 9, the
\* period of the first full week.
C5_SplitWeekMergeRule ==
    Returned =>
        LET d == call.date
        IN  /\ (OpensOn(d) \in 1..2 /\ d < FirstMonday(d)) =>
                   /\ ret = Ok(<<MonthFirst(d), FirstMonday(d) - 1>>)
                   /\ FirstMonday(d) - MonthFirst(d) \in 5..6
            /\ (TrailingDays(d) \in 3..6 /\ d >= LastMonday(d)) =>
                   ret = Ok(<<LastMonday(d), MonthLast(d)>>)
            /\ (OpensOn(d) \in 3..5 /\ d < FirstMonday(d) + 7) =>
                   ret = Ok(<<MonthFirst(d), FirstMonday(d) + 6>>)
            /\ (TrailingDays(d) = 2 /\ d >= LastMonday(d) - 7) =>
                   ret = Ok(<<LastMonday(d) - 7, MonthLast(d)>>)
            /\ (OpensOn(d) = 5 /\ d < MonthFirst(d) + 9) =>
                   ret = Ok(<<MonthFirst(d), MonthFirst(d) + 8>>)

\* Jun 1 2024, a Saturday, gets the period Jun 1 .. Jun 9
C5_Witness ==
    /\ Returned
    /\ call.date = DaysFromCivil(2024, 6, 1)
    /\ num_days_from_monday(call.date) = 5
    /\ ret = Ok(<<DaysFromCivil(2024, 6, 1), DaysFromCivil(2024, 6, 9)>>)

\* C6: in a month whose last Monday is its last or second-to-last day, every
\* date from the Monday before it to the last day gets the period from that
\* Monday to the last day, of 8 or 9 days.
C6_TrailingStubMerged ==
    (Returned /\ TrailingDays(call.date) \in 1..2
              /\ call.date >= LastMonday(call.date) - 7) =>
        /\ ret = Ok(<<LastMonday(call.date) - 7, MonthLast(call.date)>>)
        /\ MonthLast(call.date) - (LastMonday(call.date) - 7) + 1 \in 8..9

\* Apr 30 2024, the Tuesday that ends a month, gets the period Apr 22 .. 30
C6_Witness ==
    /\ Returned
    /\ call.date = DaysFromCivil(2024, 4, 30)
    /\ ret = Ok(<<DaysFromCivil(2024, 4, 22), DaysFromCivil(2024, 4, 30)>>)

-----------------------------------------------------------------------------
(* Properties of holidays::for_years (specification SpecHolidays)          *)

\* Easter Sunday by the Meeus/Jones/Butcher computus
EasterSunday(y) ==
    LET a == y % 19
        b == y \div 100
        c == y % 100
        d == b \div 4
        e == b % 4
        f == (b + 8) \div 25
        g == (b - f + 1) \div 3
        h == (19 * a + b - d - g + 15) % 30
        i == c \div 4
        k == c % 4
        l == (32 + 2 * e + 2 * i - h - k) % 7
        m == (a + 11 * h + 22 * l) \div 451
        n == h + l - 7 * m + 114
    IN  DaysFromCivil(y, n \div 31, (n % 31) + 1)

\* the latest Friday on or before June 30
MidsummerFriday(y) ==
    CHOOSE d \in (DaysFromCivil(y, 6, 30) - 6) .. DaysFromCivil(y, 6, 30) :
        num_days_from_monday(d) = 4

\* June 6, or the Friday before it when it is a Saturday or a Sunday
NationalDayObserved(y) ==
    LET d == DaysFromCivil(y, 6, 6)
    IN  IF num_days_from_monday(d) = 5 THEN d - 1
        ELSE IF num_days_from_monday(d) = 6 THEN d - 2
        ELSE d

ExpectedHolidays(y) ==
    { DaysFromCivil(y, 1, 1), DaysFromCivil(y, 1, 6), DaysFromCivil(y, 5, 1),
      DaysFromCivil(y, 12, 24), DaysFromCivil(y, 12, 25), DaysFromCivil(y, 12, 26),
      DaysFromCivil(y, 12, 31),
      EasterSunday(y) - 2, EasterSunday(y) + 1, EasterSunday(y) + 40,
      MidsummerFriday(y), NationalDayObserved(y) }

\* C10: for_years(a, b) holds, as a set, exactly the holidays of each year
\* of a..b: the seven fixed dates, Good Friday, Easter Monday and Ascension
\* Day, the latest Friday on or before June 30, and June 6 moved back to
\* Friday from a weekend.
C10_HolidaysOfYears ==
    Returned =>
        /\ ret.ok
        /\ {ret.val[i] : i \in 1..Len(ret.val)} =
               UNION {ExpectedHolidays(y) : y \in call.start_year..call.end_year}

\* the holidays of 2026..2027 hold June 5 2026 (June 6 is a Saturday) and
\* June 4 2027 (June 6 is a Sunday)
C10_Witness ==
    /\ Returned
    /\ call = [start_year |-> 2026, end_year |-> 2027]
    /\ ret.ok /\ Len(ret.val) = 24
    /\ contains(ret.val, DaysFromCivil(2026, 6, 5))
    /\ contains(ret.val, DaysFromCivil(2027, 6, 4))


\* C11, as claimed: the midsummer holiday of 2024 (the eleventh entry of the
\* year's list) is a Friday from June 19 to June 25, and the list holds
\* June 6 2024.
C11_Midsummer2024 ==
    (Returned /\ call.start_year = 2024) =>
        /\ ret.ok
        /\ num_days_from_monday(ret.val[11]) = 4
        /\ ret.val[11] >= DaysFromCivil(2024, 6, 19)
        /\ ret.val[11] <= DaysFromCivil(2024, 6, 25)
        /\ contains(ret.val, DaysFromCivil(2024, 6, 6))


-----------------------------------------------------------------------------
(* Properties of the handler (specifications SpecServe and SpecEarly)      *)

Responded == pc = "responded"

\* C12, as claimed: the handler answers 200 with the tree for every pair of
\* dates that parse with start <= end, 400 with the core's error string
\* whenever the core returns an error, and 500 only when the task panicked;
\* the response is one of the three.
C12_HandlerResponses ==
    Responded =>
        LET sd == parse_from_str(start)
            ed == parse_from_str(end)
        IN  /\ ret.status \in {200, 400, 500}
            /\ (sd.some /\ ed.some /\ sd.date <= ed.date) =>
                   /\ ret.status = 200
                   /\ ret.body = [years |-> years, total |-> total_workhours]
                   /\ start_date = sd.date /\ end_date = ed.date
            /\ ~result.ok =>
                   /\ ret.status = 400
                   /\ ret.body = [error |-> result.err]
            /\ ret.status = 500 => ~spawn_blocking(result).joined

ValidationErrors == {"Invalid start date", "Start date must be before end date"}



-----------------------------------------------------------------------------
(* Termination (specification FairSpec)                                    *)

\* C14, as claimed: for every range that parse_dates accepts the loop
\* terminates: in every iteration the clipped period_end is >= current_date,
\* current_date strictly increases, and the run reaches the return of the
\* tree with current_date past end.
C14_LoopTerminates ==
    /\ [][(pc = "loop" /\ pc' = "loop") =>
             /\ visited'[Len(visited')].end >= current_date
             /\ current_date' > current_date]_vars
    /\ (pc = "loop") ~> (Done /\ result.ok /\ current_date > end_date)


-----------------------------------------------------------------------------
(* Totality of period_boundaries (specification SpecBoundaries)            *)

\* period_boundaries, line 233: latest_monday of the called date
LatestMondayOf(d) == day_of(d) - num_days_from_monday(d)

\* period_boundaries, line 234: last_week_len of the called date
LastWeekLenOf(d) == days_in_month(d) - LatestMondayOf(d)

\* C15: for every calendar date period_boundaries returns Ok: latest_monday
\* is in -5..31 and, in the arm 6..=31, last_week_len is in 0..31 (no
\* invariant-violation branch); the constructed day is a day of the month
\* (no failed date construction); the i8 values stay in -128..127 and the
\* u32 subtractions stay >= 0; the month is one of 1..12 (no panic of
\* days_in_month).
C15_BoundariesTotal ==
    Returned =>
        /\ ret.ok
        /\ month_of(call.date) \in 1..12
        /\ LatestMondayOf(call.date) \in -5..31
        /\ LastWeekLenOf(call.date) \in -128..127
        /\ LatestMondayOf(call.date) + 13 \in -128..127
        /\ LatestMondayOf(call.date) \in 6..31 =>
              /\ LastWeekLenOf(call.date) \in 0..31
              /\ LastWeekLenOf(call.date) + 8 \in -128..127
              /\ late_new_day(day_of(call.date), num_days_from_monday(call.date),
                              LastWeekLenOf(call.date))
                    \in 1..days_in_month(call.date)
              /\ LastWeekLenOf(call.date) <= 1 =>
                    day_of(call.date) - num_days_from_monday(call.date) - 7 >= 0

\* the call on a Monday the 31st (latest_monday = 31, last_week_len = 0)
\* has returned a period
C15_Witness ==
    /\ Returned /\ ret.ok
    /\ LatestMondayOf(call.date) = 31
    /\ LastWeekLenOf(call.date) = 0


-----------------------------------------------------------------------------
(* Single-day ranges (specification Spec)                                  *)

\* the hours a one-day range is worth
SingleDayHours(d) == IF WorkingDay(d) THEN 8 ELSE 0

\* C16: for a range of one day d the returned tree has exactly one year
\* node, one month node and one period entry, and the period's value, the
\* month total, the year total and the root total are all 0 when d is a
\* Saturday, a Sunday or a holiday, and 8 otherwise.
C16_SingleDayTree ==
    (Done /\ result.ok /\ start_date = end_date) =>
        LET tree == result.val
            h    == SingleDayHours(start_date)
        IN  /\ Cardinality(DOMAIN tree.years) = 1
            /\ tree.total = h
            /\ \A y \in DOMAIN tree.years :
                  /\ Cardinality(DOMAIN tree.years[y].months) = 1
                  /\ tree.years[y].total = h
                  /\ \A m \in DOMAIN tree.years[y].months :
                        /\ Cardinality(DOMAIN tree.years[y].months[m].weeks) = 1
                        /\ tree.years[y].months[m].total = h
                        /\ \A w \in DOMAIN tree.years[y].months[m].weeks :
                              tree.years[y].months[m].weeks[w] = h

\* one-day ranges have been returned: a holiday on a weekday worth 0 hours
\* (the witness is the range of 1 May 2024, a Wednesday)
C16_Witness ==
    /\ Done /\ result.ok
    /\ start_date = end_date
    /\ start_date = DaysFromCivil(2024, 5, 1)
    /\ num_days_from_monday(start_date) = 2
    /\ result.val.total = 0
    /\ Len(visited) = 1


-----------------------------------------------------------------------------
(* The arm 6..=31 of period_boundaries (specification SpecBoundaries)      *)

\* the number of days of the returned period
PeriodLen == ret.val[2] - ret.val[1] + 1

\* the returned period starts in the month of the called date on the day
\* the claim names: latest_monday when last_week_len > 1, else a week before
LateStartAsClaimed ==
    /\ year_of(ret.val[1]) = year_of(call.date)
    /\ month_of(ret.val[1]) = month_of(call.date)
    /\ day_of(ret.val[1]) = IF LastWeekLenOf(call.date) > 1
                            THEN LatestMondayOf(call.date)
                            ELSE LatestMondayOf(call.date) - 7

\* C18, as claimed: for latest_monday in 6..31 the period length is 8 when
\* last_week_len is 0 or 1, last_week_len + 1 when it is in 2..8 and 7 when
\* it is in 9..31, and the start day is latest_monday when last_week_len > 1
\* and latest_monday - 7 otherwise.
C18_LateLength8 ==
    (Returned /\ LatestMondayOf(call.date) \in 6..31) =>
        /\ ret.ok
        /\ PeriodLen = IF LastWeekLenOf(call.date) \in {0, 1} THEN 8
                       ELSE IF LastWeekLenOf(call.date) \in 2..8
                            THEN LastWeekLenOf(call.date) + 1
                            ELSE 7
        /\ LateStartAsClaimed

\* C18, amended: for latest_monday in 6..31 the period length is
\* last_week_len + 8 (8 or 9) when last_week_len is 0 or 1,
\* last_week_len + 1 when it is in 2..8 and 7 when it is in 9..31, and the
\* start day is latest_monday when last_week_len > 1 and latest_monday - 7
\* otherwise.
C18_LateLength ==
    (Returned /\ LatestMondayOf(call.date) \in 6..31) =>
        /\ ret.ok
        /\ LastWeekLenOf(call.date) \in 0..31
        /\ PeriodLen = IF LastWeekLenOf(call.date) \in {0, 1}
                       THEN LastWeekLenOf(call.date) + 8
                       ELSE IF LastWeekLenOf(call.date) \in 2..8
                            THEN LastWeekLenOf(call.date) + 1
                            ELSE 7
        /\ LateStartAsClaimed

\* the call on a date whose latest Monday is the day before the month's last
\* day (last_week_len = 1) has returned a period of nine days that starts a
\* week before that Monday
C18_Witness ==
    /\ Returned /\ ret.ok
    /\ LatestMondayOf(call.date) \in 6..31
    /\ LastWeekLenOf(call.date) = 1
    /\ PeriodLen = 9
    /\ day_of(ret.val[1]) = LatestMondayOf(call.date) - 7


-----------------------------------------------------------------------------
(* Both ends of a month (specification SpecPair)                           *)

\* the stub size k of the pair of calls
StubSize == LeadingWeekDays(call.lead)

\* the period of day 1 runs past the leading stub into the next week
LeadingMerged == ret.lead.val[2] > call.lead + StubSize - 1

\* the period of the last day starts before the trailing stub's Monday
TrailingMerged == ret.trail.val[1] < call.trail - StubSize + 1

\* C19, as claimed: for every stub size k in 1..6 a leading stub of k days
\* is merged into the adjacent full week if and only if a trailing stub of
\* k days is.
C19_MergeSymmetric ==
    Returned =>
        /\ ret.lead.ok /\ ret.trail.ok
        /\ LeadingMerged <=> TrailingMerged

\* C19, amended: a leading stub of k days is merged if and only if k <= 4
\* and a trailing stub of k days if and only if k <= 2, so the two agree for
\* k in {1, 2, 5, 6} and differ for k in {3, 4}; a merged period is the stub
\* and the adjacent full week, an unmerged one the stub alone.
C19_MergeRule ==
    Returned =>
        /\ ret.lead.ok /\ ret.trail.ok
        /\ LeadingMerged <=> StubSize <= 4
        /\ TrailingMerged <=> StubSize <= 2
        /\ ret.lead.val = <<call.lead,
                            call.lead + StubSize - 1 + (IF StubSize <= 4 THEN 7 ELSE 0)>>
        /\ ret.trail.val = <<call.trail - StubSize + 1 - (IF StubSize <= 2 THEN 7 ELSE 0),
                             call.trail>>

\* a pair of stubs of three days has returned: the leading one merged into
\* a period of ten days, the trailing one a period of its own
C19_Witness ==
    /\ Returned
    /\ StubSize = 3
    /\ LeadingMerged /\ ~TrailingMerged
    /\ ret.lead.val[2] - ret.lead.val[1] + 1 = 10
    /\ ret.trail.val[2] - ret.trail.val[1] + 1 = 3


-----------------------------------------------------------------------------
(* Number of iterations (specification Spec)                               *)

\* the Monday of the Monday-Sunday week of d
MondayOf(d) == d - num_days_from_monday(d)

\* number of Monday-Sunday weeks with a day in [start_date, end_date]
WeeksTouched == (MondayOf(end_date) - MondayOf(start_date)) \div 7 + 1

\* number of month boundaries between start_date and end_date
MonthsCrossed ==
    (year_of(end_date) * 12 + month_of(end_date))
        - (year_of(start_date) * 12 + month_of(start_date))

\* C20, as claimed: the number of iterations of the loop is at most the
\* number of Monday-Sunday weeks that contain a day of [start, end].
C20_IterationsAtMostWeeks ==
    (Done /\ result.ok) => Len(visited) <= WeeksTouched

\* C20, amended: the number of iterations of the loop is at most the number
\* of Monday-Sunday weeks that contain a day of [start, end] plus the number
\* of month boundaries the range crosses.
C20_IterationsBound ==
    (Done /\ result.ok) => Len(visited) <= WeeksTouched + MonthsCrossed

\* a range that crosses a month boundary inside a week has been walked in
\* more iterations than it touches weeks
C20_Witness ==
    /\ Done /\ result.ok
    /\ MonthsCrossed >= 1
    /\ Len(visited) > WeeksTouched
    /\ Len(visited) = WeeksTouched + MonthsCrossed


-----------------------------------------------------------------------------
(* Periods and months (specification SpecBoundaries)                       *)

\* C21: for every date d, period_boundaries(d) = (start, end) has
\* start <= d <= end, and start and end lie in the calendar month and year
\* of d.
C21_PeriodInsideMonth ==
    Returned =>
        /\ ret.ok
        /\ ret.val[1] <= call.date
        /\ call.date <= ret.val[2]
        /\ year_of(ret.val[1]) = year_of(call.date)
        /\ month_of(ret.val[1]) = month_of(call.date)
        /\ year_of(ret.val[2]) = year_of(call.date)
        /\ month_of(ret.val[2]) = month_of(call.date)

\* the call on a date of a month's last week, which the month ends on a
\* Wednesday to Saturday, has returned the period from the last Monday to
\* the month's last day
C21_Witness ==
    /\ Returned /\ ret.ok
    /\ num_days_from_monday(MonthLast(call.date)) \in 2..5
    /\ call.date >= LastMonday(call.date)
    /\ ret.val = <<LastMonday(call.date), MonthLast(call.date)>>


-----------------------------------------------------------------------------
(* Periods of neighbouring dates (specification SpecNeighbours)            *)

\* d lies in the period p = <<start, end>>
InPeriod(d, p) == p[1] <= d /\ d <= p[2]

\* C22: period_boundaries is constant on each period: a date inside the
\* period of another date gets that same period; the periods of two dates
\* that do not share a period are disjoint; and each date lies in its own
\* period, which stays inside its month, so the periods of a month tile it
\* from day 1 to its last day.
C22_ConstantOnPeriod ==
    Returned =>
        /\ ret.date.ok /\ ret.other.ok
        /\ InPeriod(call.date, ret.date.val)
        /\ InPeriod(call.other, ret.other.val)
        /\ MonthFirst(call.date) <= ret.date.val[1]
        /\ ret.date.val[2] <= MonthLast(call.date)
        /\ IF InPeriod(call.other, ret.date.val) \/ InPeriod(call.date, ret.other.val)
           THEN ret.other.val = ret.date.val
           ELSE ret.date.val[2] < ret.other.val[1]

\* the calls on day 1 and on day 11 of a month that opens on a Thursday have
\* returned the same period of eleven days
C22_Witness ==
    /\ Returned /\ ret.date.ok /\ ret.other.ok
    /\ day_of(call.date) = 1
    /\ call.other = call.date + 10
    /\ ret.date.val = <<call.date, call.other>>
    /\ ret.other.val = ret.date.val


-----------------------------------------------------------------------------
(* Labels of clipped periods (specification Spec)                          *)

\* the natural period of the date an iteration starts on
NaturalPeriod(v) == period_boundaries(v.begin).val

\* the iteration v scored fewer days than its natural period has
Clipped(v) == v.begin > NaturalPeriod(v)[1] \/ v.end < NaturalPeriod(v)[2]

\* C23: the label of every visited period is the label of its natural
\* (unclipped) period, whether or not the range covers the whole period; it
\* is stored under the year and month of the iteration's current_date; and
\* the hours are those of the days from current_date to the clipped end,
\* which lie inside both the natural period and [start, end].
C23_LabelOfNaturalPeriod ==
    (pc \in {"loop", "done"}) =>
        \A i \in 1..Len(visited) :
            /\ visited[i].week = period_name(NaturalPeriod(visited[i])[1],
                                             NaturalPeriod(visited[i])[2])
            /\ NaturalPeriod(visited[i])[1] <= visited[i].begin
            /\ visited[i].end = min_date(end_date, NaturalPeriod(visited[i])[2])
            /\ start_date <= visited[i].begin /\ visited[i].end <= end_date
            /\ visited[i].hours =
                  8 * Cardinality({d \in visited[i].begin .. visited[i].end : WorkingDay(d)})
            /\ year_key(visited[i].begin) \in DOMAIN years
            /\ month_key(visited[i].begin)
                  \in DOMAIN years[year_key(visited[i].begin)].months
            /\ visited[i].week
                  \in DOMAIN years[year_key(visited[i].begin)]
                                 .months[month_key(visited[i].begin)].weeks

\* a range that starts in the middle of a period has been returned, and the
\* label stored for that period is not the one the clipped interval alone
\* would get
C23_Witness ==
    /\ Done /\ result.ok
    /\ Len(visited) >= 1
    /\ visited[1].begin > NaturalPeriod(visited[1])[1]
    /\ visited[1].week # period_name(visited[1].begin, visited[1].end)
    /\ visited[1].hours > 0


-----------------------------------------------------------------------------
(* Labels of natural periods (specification SpecNames)                     *)

\* ISO 8601 week number of d: the week of the year of the Thursday of d's
\* Monday-Sunday week
IsoWeekOf(d) ==
    LET thursday == d - num_days_from_monday(d) + 3
    IN  (thursday - DaysFromCivil(year_of(thursday), 1, 1)) \div 7 + 1

\* C24: for every natural period (start, end), period_name is "week: "
\* followed by the ISO week number of start when start is a Monday and the
\* period spans at least 7 days, and by the ISO week number of end otherwise.
C24_PeriodName ==
    Returned =>
        /\ ret.period.ok
        /\ ret.period.val.name =
              "week: " \o to_string(
                  IF /\ num_days_from_monday(ret.period.val.start) = 0
                     /\ ret.period.val.end - ret.period.val.start + 1 >= 7
                  THEN IsoWeekOf(ret.period.val.start)
                  ELSE IsoWeekOf(ret.period.val.end))

\* a period of nine days that starts on a Monday and ends in the next ISO
\* week has been named after the week of its start
C24_Witness ==
    /\ Returned /\ ret.period.ok
    /\ num_days_from_monday(ret.period.val.start) = 0
    /\ ret.period.val.end - ret.period.val.start + 1 = 9
    /\ IsoWeekOf(ret.period.val.end) # IsoWeekOf(ret.period.val.start)
    /\ ret.period.val.name = "week: " \o to_string(IsoWeekOf(ret.period.val.start))


\* the two periods of r are adjacent natural periods on either side of a
\* month boundary that splits a Monday-Sunday week: the first ends on a
\* month's last day, which is not a Sunday, and the second starts the next
\* day, on day 1 of the next month
SplitsWeek(r) ==
    /\ r.period.ok /\ r.next.ok
    /\ r.next.val.start = r.period.val.end + 1
    /\ day_of(r.next.val.start) = 1
    /\ num_days_from_monday(r.period.val.end) # 6

\* the answer of the two calls on the date d
NamesAt(d) ==
    [period |-> named_period(period_boundaries(d)),
     next |-> following_period(named_period(period_boundaries(d)))]

\* C25, as claimed: there exist two adjacent natural periods, on either side
\* of a month boundary that splits one Monday-Sunday week, to which
\* period_name gives the identical label: among the dates the calls are
\* drawn from there is one whose period and following period are such a
\* pair.
C25_AdjacentSameLabel ==
    Returned =>
        \E d \in SweepDates :
            /\ SplitsWeek(NamesAt(d))
            /\ NamesAt(d).period.val.name = NamesAt(d).next.val.name

\* C25, amended: no two adjacent natural periods on either side of a month
\* boundary that splits one Monday-Sunday week get the identical label: one
\* of the two parts of the week is always merged into a neighbouring week,
\* and the two labels are consecutive ISO week numbers (the week restarting
\* at 1 after the last week of a year).
C25_AdjacentLabelsDiffer ==
    (Returned /\ SplitsWeek(ret)) =>
        /\ ret.period.val.name # ret.next.val.name
        /\ \/ ret.period.val.end - ret.period.val.start + 1 > 7
           \/ ret.next.val.end - ret.next.val.start + 1 > 7
        /\ \E w \in 1..53 :
              /\ ret.period.val.name = "week: " \o to_string(w)
              /\ ret.next.val.name \in {"week: " \o to_string(w + 1), "week: 1"}

\* a month has ended on a Wednesday: its last three days are a period of
\* their own, the first four days of the next month are merged into a period
\* of eleven days, and the two labels differ
C25_Witness ==
    /\ Returned /\ SplitsWeek(ret)
    /\ ret.period.val.end - ret.period.val.start + 1 = 3
    /\ ret.next.val.end - ret.next.val.start + 1 = 11
    /\ ret.period.val.name # ret.next.val.name


-----------------------------------------------------------------------------
(* Keys of the visited periods (specification Spec)                        *)

\* the (year key, month key, period label) an iteration stores under
KeyOf(v) == <<year_key(v.begin), month_key(v.begin), v.week>>

\* C26: within one call no two visited periods have the same (year key,
\* month key, period label), so no insert overwrites an earlier period's
\* hours: the entry stored under each visited period's key is that period's
\* hours.
C26_NoLabelCollision ==
    (pc \in {"loop", "done"}) =>
        /\ \A i, j \in 1..Len(visited) :
              i # j => KeyOf(visited[i]) # KeyOf(visited[j])
        /\ \A i \in 1..Len(visited) :
              years[year_key(visited[i].begin)]
                  .months[month_key(visited[i].begin)]
                  .weeks[visited[i].week] = visited[i].hours

\* a range over a turn of the year has been returned: six or more periods
\* under two year keys, each stored with its own hours
C26_Witness ==
    /\ Done /\ result.ok
    /\ Len(visited) >= 6
    /\ Cardinality(DOMAIN years) = 2
    /\ Cardinality({KeyOf(visited[i]) : i \in 1..Len(visited)}) = Len(visited)


-----------------------------------------------------------------------------
(* Year and month nodes (specification Spec)                               *)

\* the days of [start, end]
RangeDays == start_date .. end_date

\* the days of the range in the calendar month with the keys (y, m)
DaysOfMonth(y, m) == {d \in RangeDays : year_key(d) = y /\ month_key(d) = m}

\* C27: the returned tree has a year node exactly for each calendar year and
\* a month node exactly for each calendar month with a day in [start, end],
\* and each month total is 8 times the number of days of that month in the
\* range that are neither Saturday, Sunday nor a holiday.
C27_NodesAndMonthTotals ==
    (Done /\ result.ok) =>
        /\ DOMAIN result.val.years = {year_key(d) : d \in RangeDays}
        /\ \A y \in DOMAIN result.val.years :
              /\ DOMAIN result.val.years[y].months =
                    {month_key(d) : d \in {e \in RangeDays : year_key(e) = y}}
              /\ \A m \in DOMAIN result.val.years[y].months :
                    result.val.years[y].months[m].total =
                        8 * Cardinality({d \in DaysOfMonth(y, m) : WorkingDay(d)})

\* a range from a December into the next January has been returned: two
\* year nodes of one month each, both with hours, and the January total
\* smaller than 8 hours per weekday because of its holidays
C27_Witness ==
    /\ Done /\ result.ok
    /\ month_of(start_date) = 12 /\ month_of(end_date) = 1
    /\ end_date - start_date >= 20
    /\ \A y \in DOMAIN result.val.years :
          /\ Cardinality(DOMAIN result.val.years[y].months) = 1
          /\ result.val.years[y].total > 0
    /\ result.val.years[year_key(end_date)].months[month_key(end_date)].total
          < 8 * Cardinality({d \in DaysOfMonth(year_key(end_date), month_key(end_date)) :
                                 num_days_from_monday(d) < 5})

====
